---- MODULE Spec2Model ----
(***************************************************************************)
(* A model of simplexnoise.go: makeNoise (the parallel field computation    *)
(* with its mutex-guarded min/max reduction and the wait-group join),       *)
(* rescaleAndDraw, turbulence, getDualGradient/lerp and the permutation     *)
(* table indexing of snoise2.                                               *)
(*                                                                         *)
(* In makeNoise and turbulence a float32 value is an integer of magnitude   *)
(* at most MaxFloat32, an infinity or NaN; a result beyond MaxFloat32       *)
(* overflows to an infinity. In getDualGradient and lerp float32 arithmetic *)
(* is computed bit for bit, for builds that round every operation and for   *)
(* builds that fuse x*y + z into one rounding. Where a conversion is        *)
(* implementation-defined, the model takes every outcome.                   *)
(***************************************************************************)
EXTENDS Integers, Sequences, FiniteSets, TLC

\* ------------------------------------------------------------------ bounds
\* Largest number of goroutines (runtime.NumCPU() is drawn from 1..MaxRoutines).
MaxRoutines == 3
\* Turbulence values of the field are drawn from 0..MaxNoise.
MaxNoise == 1

\* math.MaxFloat32, the largest finite float32: the sentinel of the min/max
\* search, above every field value.
MaxFloat32 == 1000

\* winWidth x winHeight (800 x 600 in the source), drawn from small grids:
\* a single cell, a square, and grids with width /= height.
Grids == {<<1, 1>>, <<2, 2>>, <<2, 3>>, <<3, 2>>, <<4, 2>>}

VARIABLES
    winWidth, winHeight, \* grid size
    numRoutines,         \* runtime.NumCPU()
    turb,                \* turbulence(x, y, frequency, ...) of this call, by <<x, y>>:
                         \* a pure function of its arguments, defined on those it
                         \* has been called with so far
    noise,               \* noise []float32, by flat index
    min, max,            \* the shared global extrema
    mutex,               \* the set of goroutines holding mutex: empty, or one
    wg,                  \* counter of the sync.WaitGroup
    mpc,                 \* position of makeNoise itself
    spawned,             \* i of the spawning loop
    wpc,                 \* position of each goroutine
    wj,                  \* j of each goroutine's loop
    innerMin, innerMax,  \* each goroutine's local extrema
    passed,              \* by flat index: the <<x, y>> handed to turbulence, <<>> if none
    touched,             \* by flat index: the goroutines that accessed noise[j]
    ri,                  \* i of rescaleAndDraw's loop
    pixels               \* by cell: the gradient index whose colour was written

mvars == <<winWidth, winHeight, numRoutines, turb, noise, min, max, mutex, wg,
           mpc, spawned, wpc, wj, innerMin, innerMax, passed, touched, ri, pixels>>

\* The state of a pair of calls of turbulence on the same arguments, the first
\* with n octaves and the second with 2n.
VARIABLES
    tpc,                 \* position: "call", "loop" or "done"
    tcall,               \* 1 or 2: which of the two calls runs
    targs,               \* [x, y, frequency, lacunarity, gain, octaves] of the first call
    ti,                  \* i of turbulence's loop
    tsum,                \* sum
    tamplitude,          \* amplitude
    tfrequency,          \* frequency (the parameter, updated in the loop)
    tterm,               \* the terms f added to sum by the running call
    tresult,             \* the values returned so far
    snoise               \* snoise2, by its arguments: a pure function, defined on the
                         \* arguments it has been called with so far

tvars == <<tpc, tcall, targs, ti, tsum, tamplitude, tfrequency, tterm, tresult, snoise>>

\* The state of snoise2's permutation table reads for one simplex cell.
VARIABLES
    pcell,               \* <<i, j>>: the cell indices fastFloor returned
    pmid,                \* <<i1, j1>>: the offsets of the middle corner
    pwrapped,            \* <<ii, jj>> once computed, <<>> before
    pcorner,             \* the next corner to handle: 0, 1, 2, or 3 when all are done
    pinner,              \* by corner: the index of the inner perm read
    pouter               \* by corner: the index of the outer perm read

pvars == <<pcell, pmid, pwrapped, pcorner, pinner, pouter>>

\* The state of a call of getDualGradient.
VARIABLES
    gpc,                 \* position: "loop" or "done"
    fused,               \* whether the build fuses x*y + z into one rounding
    gctrl,               \* <<c1, c2, c3, c4>>: the control colours
    gi,                  \* i of getDualGradient's loop
    result               \* result []color: entry i of the Go slice is result[i + 1],
                         \* the entries not yet written left out

gvars == <<gpc, fused, gctrl, gi, result>>

vars == <<mvars, tvars, pvars, gvars>>


Cells == winWidth * winHeight
Workers == 0 .. numRoutines - 1

\* batchSize := len(noise) / numRoutines, for n goroutines
batchSize(n) == Cells \div n

\* start := i * batchSize
ChunkStart(i, n) == i * batchSize(n)

\* end := start + batchSize - 1
ChunkEnd(i, n) == ChunkStart(i, n) + batchSize(n) - 1

\* x := j % winWidth
CoordX(j) == j % winWidth

\* y := (j - x) / winHeight
CoordY(j, x) == (j - x) \div winHeight

\* The arguments turbulence is called with, over all flat indices.
Coords == {<<CoordX(j), CoordY(j, CoordX(j))>> : j \in 0 .. Cells - 1}

\* if noise[j] < innerMin { innerMin = noise[j] } else if ... (the min branch)
InnerMinAfter(v, imin) == IF v < imin THEN v ELSE imin

\* ... else if noise[j] > innerMax { innerMax = noise[j] }
InnerMaxAfter(v, imin, imax) ==
    IF v < imin THEN imax ELSE IF v > imax THEN v ELSE imax

\* mutex.Lock() returns only when nobody holds the mutex.
CanLockAlways(m) == TRUE
CanLock(m) == m = {}

\* mutex.Unlock()
UnlockStuck(m) == m
Unlocked(m) == {}

\* if innerMin < min { min = innerMin }
MergeMin(imin, gmin) == IF imin < gmin THEN imin ELSE gmin

\* if innerMax > max { max = innerMax }
MergeMax(imax, gmax) == IF imax > gmax THEN imax ELSE gmax

\* wg.Wait() returns when the counter is zero.
WaitReturnsEarly(c) == c <= 1
WaitReturns(c) == c = 0

\* clamp(min, max, v)
clamp(lo, hi, v) == IF v < lo THEN lo ELSE IF v > hi THEN hi ELSE v

\* Integer quotient truncated toward zero (Go's float to int conversion).
TruncDiv(a, b) ==
    IF b = 0 THEN 0
    ELSE LET q == (IF a < 0 THEN -a ELSE a) \div (IF b < 0 THEN -b ELSE b)
         IN  IF (a < 0) = (b < 0) THEN q ELSE -q

\* int(noise[i]*scale - offset) with scale = 255/(max-min), offset = min*scale.
\* max = min makes scale infinite and the value non-finite; its conversion to
\* int is implementation-defined (either end of the range). max < min happens
\* only with max still at -MaxFloat32, where scale is a negative number of
\* vanishing magnitude and the value truncates to 0.
Rescaled(v, mn, mx) ==
    IF mx > mn THEN {TruncDiv(255 * (v - mn), mx - mn)}
    ELSE IF mx = mn THEN {-MaxFloat32, MaxFloat32}
    ELSE {0}

\* Nothing runs in turbulence's pair of calls.
TurbIdle ==
    /\ tpc = "done"
    /\ tcall = 0
    /\ targs = <<>>
    /\ ti = 0
    /\ tsum = <<>>
    /\ tamplitude = <<>>
    /\ tfrequency = <<>>
    /\ tterm = <<>>
    /\ tresult = <<>>
    /\ snoise = <<>>

\* Nothing runs in snoise2's table reads.
PermIdle ==
    /\ pcell = <<>>
    /\ pmid = <<>>
    /\ pwrapped = <<>>
    /\ pcorner = 3
    /\ pinner = <<>>
    /\ pouter = <<>>

\* Nothing runs in getDualGradient.
GradIdle ==
    /\ gpc = "done"
    /\ fused = FALSE
    /\ gctrl = <<>>
    /\ gi = 0
    /\ result = <<>>

\* ---------------------------------------------------------------- makeNoise
MakeNoiseInit ==
    /\ \E g \in Grids : winWidth = g[1] /\ winHeight = g[2]
    /\ numRoutines \in 1 .. MaxRoutines
    /\ turb = <<>>
    /\ noise = [j \in 0 .. Cells - 1 |-> 0]
    /\ min = MaxFloat32
    /\ max = -MaxFloat32
    /\ mutex = {}
    /\ wg = numRoutines
    /\ mpc = "spawn"
    /\ spawned = 0
    /\ wpc = [w \in Workers |-> "idle"]
    /\ wj = [w \in Workers |-> 0]
    /\ innerMin = [w \in Workers |-> MaxFloat32]
    /\ innerMax = [w \in Workers |-> -MaxFloat32]
    /\ passed = [j \in 0 .. Cells - 1 |-> <<>>]
    /\ touched = [j \in 0 .. Cells - 1 |-> {}]
    /\ ri = 0
    /\ pixels = [j \in 0 .. Cells - 1 |-> 0]

\* for i := 0; i < numRoutines; i++ { go func(i int) {...}(i) }
Spawn ==
    /\ mpc = "spawn"
    /\ spawned < numRoutines
    /\ wpc' = [wpc EXCEPT ![spawned] = "start"]
    /\ spawned' = spawned + 1
    /\ UNCHANGED <<winWidth, winHeight, numRoutines, turb, noise, min, max, mutex,
                   wg, mpc, wj, innerMin, innerMax, passed, touched, ri, pixels>>
    /\ UNCHANGED <<tvars, pvars, gvars>>

\* The spawning loop ends; makeNoise reaches wg.Wait().
SpawnDone ==
    /\ mpc = "spawn"
    /\ ~(spawned < numRoutines)
    /\ mpc' = "wait"
    /\ UNCHANGED <<winWidth, winHeight, numRoutines, turb, noise, min, max, mutex,
                   wg, spawned, wpc, wj, innerMin, innerMax, passed, touched, ri,
                   pixels>>
    /\ UNCHANGED <<tvars, pvars, gvars>>

\* innerMin, innerMax, start, end; j := start
WorkerStart(w) ==
    /\ wpc[w] = "start"
    /\ innerMin' = [innerMin EXCEPT ![w] = MaxFloat32]
    /\ innerMax' = [innerMax EXCEPT ![w] = -MaxFloat32]
    /\ wj' = [wj EXCEPT ![w] = ChunkStart(w, numRoutines)]
    /\ wpc' = [wpc EXCEPT ![w] = "loop"]
    /\ UNCHANGED <<winWidth, winHeight, numRoutines, turb, noise, min, max, mutex,
                   wg, mpc, spawned, passed, touched, ri, pixels>>
    /\ UNCHANGED <<tvars, pvars, gvars>>

\* One iteration of for j := start; j < end; j++ {...}
WorkerLoop(w) ==
    /\ wpc[w] = "loop"
    /\ wj[w] < ChunkEnd(w, numRoutines)
    /\ \E v \in 0 .. MaxNoise :
       LET j == wj[w]
           x == CoordX(j)
           y == CoordY(j, x)
       IN  /\ <<x, y>> \in DOMAIN turb => turb[<<x, y>>] = v
           /\ turb' = (<<x, y>> :> v) @@ turb
           /\ noise' = [noise EXCEPT ![j] = v]
           /\ passed' = [passed EXCEPT ![j] = <<x, y>>]
           /\ touched' = [touched EXCEPT ![j] = @ \cup {w}]
           /\ innerMin' = [innerMin EXCEPT ![w] = InnerMinAfter(v, @)]
           /\ innerMax' = [innerMax EXCEPT ![w] = InnerMaxAfter(v, innerMin[w], @)]
           /\ wj' = [wj EXCEPT ![w] = j + 1]
    /\ UNCHANGED <<winWidth, winHeight, numRoutines, min, max, mutex, wg, mpc,
                   spawned, wpc, ri, pixels>>
    /\ UNCHANGED <<tvars, pvars, gvars>>

\* j < end fails: the goroutine goes on to mutex.Lock().
WorkerLoopExit(w) ==
    /\ wpc[w] = "loop"
    /\ ~(wj[w] < ChunkEnd(w, numRoutines))
    /\ wpc' = [wpc EXCEPT ![w] = "lock"]
    /\ UNCHANGED <<winWidth, winHeight, numRoutines, turb, noise, min, max, mutex,
                   wg, mpc, spawned, wj, innerMin, innerMax, passed, touched, ri,
                   pixels>>
    /\ UNCHANGED <<tvars, pvars, gvars>>

\* mutex.Lock()
WorkerLock(w) ==
    /\ wpc[w] = "lock"
    /\ CanLock(mutex)
    /\ mutex' = {w}
    /\ wpc' = [wpc EXCEPT ![w] = "mergeMin"]
    /\ UNCHANGED <<winWidth, winHeight, numRoutines, turb, noise, min, max, wg, mpc,
                   spawned, wj, innerMin, innerMax, passed, touched, ri, pixels>>
    /\ UNCHANGED <<tvars, pvars, gvars>>

\* if innerMin < min { min = innerMin }
WorkerMergeMin(w) ==
    /\ wpc[w] = "mergeMin"
    /\ min' = MergeMin(innerMin[w], min)
    /\ wpc' = [wpc EXCEPT ![w] = "mergeMax"]
    /\ UNCHANGED <<winWidth, winHeight, numRoutines, turb, noise, max, mutex, wg,
                   mpc, spawned, wj, innerMin, innerMax, passed, touched, ri, pixels>>
    /\ UNCHANGED <<tvars, pvars, gvars>>

\* if innerMax > max { max = innerMax }
WorkerMergeMax(w) ==
    /\ wpc[w] = "mergeMax"
    /\ max' = MergeMax(innerMax[w], max)
    /\ wpc' = [wpc EXCEPT ![w] = "unlock"]
    /\ UNCHANGED <<winWidth, winHeight, numRoutines, turb, noise, min, mutex, wg,
                   mpc, spawned, wj, innerMin, innerMax, passed, touched, ri, pixels>>
    /\ UNCHANGED <<tvars, pvars, gvars>>

\* mutex.Unlock()
WorkerUnlock(w) ==
    /\ wpc[w] = "unlock"
    /\ mutex' = Unlocked(mutex)
    /\ wpc' = [wpc EXCEPT ![w] = "return"]
    /\ UNCHANGED <<winWidth, winHeight, numRoutines, turb, noise, min, max, wg, mpc,
                   spawned, wj, innerMin, innerMax, passed, touched, ri, pixels>>
    /\ UNCHANGED <<tvars, pvars, gvars>>

\* defer wg.Done()
WorkerDone(w) ==
    /\ wpc[w] = "return"
    /\ wg' = wg - 1
    /\ wpc' = [wpc EXCEPT ![w] = "exit"]
    /\ UNCHANGED <<winWidth, winHeight, numRoutines, turb, noise, min, max, mutex,
                   mpc, spawned, wj, innerMin, innerMax, passed, touched, ri, pixels>>
    /\ UNCHANGED <<tvars, pvars, gvars>>

\* wg.Wait() returns; rescaleAndDraw(noise, min, max, gradient, pixels) is called.
Wait ==
    /\ mpc = "wait"
    /\ WaitReturns(wg)
    /\ mpc' = "rescale"
    /\ ri' = 0
    /\ UNCHANGED <<winWidth, winHeight, numRoutines, turb, noise, min, max, mutex,
                   wg, spawned, wpc, wj, innerMin, innerMax, passed, touched, pixels>>
    /\ UNCHANGED <<tvars, pvars, gvars>>

\* One iteration of rescaleAndDraw's for i := range noise {...}
Draw ==
    /\ mpc = "rescale"
    /\ ri < Cells
    /\ \E r \in Rescaled(noise[ri], min, max) :
          /\ noise' = [noise EXCEPT ![ri] = r]
          /\ pixels' = [pixels EXCEPT ![ri] = clamp(0, 255, r)]
    /\ ri' = ri + 1
    /\ UNCHANGED <<winWidth, winHeight, numRoutines, turb, min, max, mutex, wg, mpc,
                   spawned, wpc, wj, innerMin, innerMax, passed, touched>>
    /\ UNCHANGED <<tvars, pvars, gvars>>

\* rescaleAndDraw's loop ends and makeNoise returns.
DrawDone ==
    /\ mpc = "rescale"
    /\ ~(ri < Cells)
    /\ mpc' = "done"
    /\ UNCHANGED <<winWidth, winHeight, numRoutines, turb, noise, min, max, mutex,
                   wg, spawned, wpc, wj, innerMin, innerMax, passed, touched, ri,
                   pixels>>
    /\ UNCHANGED <<tvars, pvars, gvars>>

WorkerStep(w) ==
    \/ WorkerStart(w)
    \/ WorkerLoop(w)
    \/ WorkerLoopExit(w)
    \/ WorkerLock(w)
    \/ WorkerMergeMin(w)
    \/ WorkerMergeMax(w)
    \/ WorkerUnlock(w)
    \/ WorkerDone(w)

MainStep ==
    \/ Spawn
    \/ SpawnDone
    \/ Wait
    \/ Draw
    \/ DrawDone

Init == MakeNoiseInit /\ TurbIdle /\ PermIdle /\ GradIdle

Next ==
    \/ MainStep
    \/ \E w \in Workers : WorkerStart(w)
    \/ \E w \in Workers : WorkerLoop(w)
    \/ \E w \in Workers : WorkerLoopExit(w)
    \/ \E w \in Workers : WorkerLock(w)
    \/ \E w \in Workers : WorkerMergeMin(w)
    \/ \E w \in Workers : WorkerMergeMax(w)
    \/ \E w \in Workers : WorkerUnlock(w)
    \/ \E w \in Workers : WorkerDone(w)

Spec == Init /\ [][Next]_vars

\* The Go scheduler runs every runnable goroutine: makeNoise and each worker
\* keep taking steps while they have one to take.
FairSpec ==
    /\ Init
    /\ [][Next]_vars
    /\ WF_vars(MainStep)
    /\ \A w \in 0 .. MaxRoutines - 1 : WF_vars(w \in Workers /\ WorkerStep(w))

\* ------------------------------------------------------- claims on makeNoise

\* wg.Wait() has just returned: rescaleAndDraw is called with noise, min, max.
Joined == mpc = "rescale" /\ ri = 0

\* C1: when all workers have finished, every flat index in [0, W*H) has been
\* written by some worker (the chunks [start, start+batchSize) cover the range).
C1_EveryIndexWritten ==
    Joined => \A j \in 0 .. Cells - 1 : touched[j] # {}

FieldMin == CHOOSE m \in {noise[j] : j \in 0 .. Cells - 1} :
                \A j \in 0 .. Cells - 1 : m <= noise[j]
FieldMax == CHOOSE m \in {noise[j] : j \in 0 .. Cells - 1} :
                \A j \in 0 .. Cells - 1 : m >= noise[j]

\* C2: the min and max passed to rescaleAndDraw are the minimum and the maximum
\* over all W*H values held in the noise field.
C2_GlobalExtremaExact ==
    Joined => min = FieldMin /\ max = FieldMax

\* C3: for every flat index j a worker processes, turbulence gets x = j mod W and
\* y = (j - x) / W, with 0 <= x < W, 0 <= y < H, distinct indices mapping to
\* distinct cells.
C3_RowMajorCoordinates ==
    \A j \in 0 .. Cells - 1 :
        passed[j] # <<>> =>
            /\ passed[j] = <<j % winWidth, (j - (j % winWidth)) \div winWidth>>
            /\ passed[j][1] \in 0 .. winWidth - 1
            /\ passed[j][2] \in 0 .. winHeight - 1
            /\ \A k \in 0 .. Cells - 1 :
                   (k # j /\ passed[k] # <<>>) => passed[k] # passed[j]

\* The run of makeNoise's goroutine body with numRoutines = 1 on the turbulence
\* function t: the local extrema after the indices from j up to end.
RECURSIVE OneWorkerInner(_, _, _, _)
OneWorkerInner(t, j, imin, imax) ==
    IF j < ChunkEnd(0, 1)
    THEN LET v == t[<<CoordX(j), CoordY(j, CoordX(j))>>]
         IN  OneWorkerInner(t, j + 1, InnerMinAfter(v, imin),
                            InnerMaxAfter(v, imin, imax))
    ELSE <<imin, imax>>

OneWorkerNoise(t) ==
    [j \in 0 .. Cells - 1 |->
        IF ChunkStart(0, 1) <= j /\ j < ChunkEnd(0, 1)
        THEN t[<<CoordX(j), CoordY(j, CoordX(j))>>] ELSE 0]

OneWorkerMin(t) ==
    MergeMin(OneWorkerInner(t, ChunkStart(0, 1), MaxFloat32, -MaxFloat32)[1], MaxFloat32)
OneWorkerMax(t) ==
    MergeMax(OneWorkerInner(t, ChunkStart(0, 1), MaxFloat32, -MaxFloat32)[2], -MaxFloat32)

\* The turbulence functions that agree with the values computed so far.
Completions ==
    {t \in [Coords -> 0 .. MaxNoise] : \A c \in DOMAIN turb : t[c] = turb[c]}

\* C4: with N workers the field and the (min, max) pair at the join are those of
\* the run with 1 worker on the same parameters, whatever the interleaving.
C4_SameAsOneWorker ==
    Joined => \A t \in Completions :
                 /\ noise = OneWorkerNoise(t)
                 /\ min = OneWorkerMin(t)
                 /\ max = OneWorkerMax(t)

InCritical(w) == wpc[w] \in {"mergeMin", "mergeMax", "unlock"}

C6_RescaleAfterJoin ==
    mpc \in {"rescale", "done"} =>
        /\ \A w \in Workers : wpc[w] = "exit"
        /\ wg = 0
        /\ mutex = {}

\* rescaleAndDraw is under way after a run of several workers.
C6_Witness == mpc = "rescale" /\ ri = 1 /\ numRoutines >= 2

\* C7: under fair scheduling every call of makeNoise terminates: every worker
\* signals the wait group once, the join returns and rescaleAndDraw ends.
C7_Terminates ==
    <>(/\ mpc = "done"
       /\ wg = 0
       /\ mutex = {}
       /\ \A w \in Workers : wpc[w] = "exit")

\* makeNoise has returned from a run with more goroutines than cells.
C7_Witness == mpc = "done" /\ wg = 0 /\ numRoutines > Cells

\* --------------------------------------------------------------- turbulence
\* Largest octave count n of the first call (the second call runs 2n octaves).
MaxOctaves == 2
\* snoise2's values are drawn from -NoiseAmp .. NoiseAmp.
NoiseAmp == 1

\* A float32 value is <<"finite", n>> with |n| <= MaxFloat32, <<"inf", 1>>,
\* <<"inf", -1>> or <<"nan", 0>>.
Finite(n) == <<"finite", n>>
PosInf == <<"inf", 1>>
NegInf == <<"inf", -1>>
NaN == <<"nan", 0>>

\* The float32 result of an operation whose exact result is n: a magnitude above
\* math.MaxFloat32 overflows to an infinity.
Round32(n) ==
    IF n > MaxFloat32 THEN PosInf ELSE IF n < -MaxFloat32 THEN NegInf ELSE Finite(n)

\* a * b on float32 operands: 0 * Inf and every product with NaN are NaN.
FMul(a, b) ==
    IF a[1] = "nan" \/ b[1] = "nan" THEN NaN
    ELSE IF a[1] = "inf" \/ b[1] = "inf"
         THEN (IF a[2] = 0 \/ b[2] = 0 THEN NaN
               ELSE IF (a[2] < 0) = (b[2] < 0) THEN PosInf ELSE NegInf)
    ELSE Round32(a[2] * b[2])

\* a + b on float32 operands: Inf + (-Inf) and every sum with NaN are NaN.
FAdd(a, b) ==
    IF a[1] = "nan" \/ b[1] = "nan" THEN NaN
    ELSE IF a[1] = "inf" /\ b[1] = "inf" THEN (IF a[2] = b[2] THEN a ELSE NaN)
    ELSE IF a[1] = "inf" THEN a
    ELSE IF b[1] = "inf" THEN b
    ELSE Round32(a[2] + b[2])

\* a < b on float32 operands: false when either is NaN.
FLess(a, b) ==
    /\ a[1] # "nan"
    /\ b[1] # "nan"
    /\ (IF a[1] = "inf" THEN a[2] * (MaxFloat32 + 1) ELSE a[2])
           < (IF b[1] = "inf" THEN b[2] * (MaxFloat32 + 1) ELSE b[2])

\* The arguments the pair of calls is tried on. The frequencies stay finite for
\* the octave counts tried; the amplitude overflows with the largest gain.
Points == {<<0, 0>>, <<1, 2>>}
Frequencies == {1, 2}
Lacunarities == {0, 1, 2}
Gains == {-2, -1, 0, 1, 40}
OctaveCounts == -1 .. MaxOctaves

\* The octaves parameter of the running call.
Octaves == IF tcall = 1 THEN targs.octaves ELSE 2 * targs.octaves

\* The values snoise2 can return at <<x, y>>. At the origin it returns 0: the
\* cell is <<0, 0>>, x0 = y0 = 0, grad2(h, 0, 0) = 0 for every h, and t1, t2 are
\* negative. At the other points tried it returns a value other than 0.
snoise2(at) ==
    IF at = <<Finite(0), Finite(0)>> THEN {Finite(0)}
    ELSE {Finite(s) : s \in (-NoiseAmp .. NoiseAmp) \ {0}}

\* f := snoise2(...) * amplitude; if f < 0 { f = -1.0 * f }
Term(s, amplitude) ==
    LET f == FMul(s, amplitude)
    IN  IF FLess(f, Finite(0)) THEN FMul(Finite(-1), f) ELSE f

TurbInit ==
    /\ tpc = "call"
    /\ tcall = 1
    /\ \E pt \in Points, fr \in Frequencies, la \in Lacunarities, ga \in Gains,
          n \in OctaveCounts :
          targs = [x |-> Finite(pt[1]), y |-> Finite(pt[2]), frequency |-> Finite(fr),
                   lacunarity |-> Finite(la), gain |-> Finite(ga), octaves |-> n]
    /\ ti = 0
    /\ tsum = <<>>
    /\ tamplitude = <<>>
    /\ tfrequency = <<>>
    /\ tterm = <<>>
    /\ tresult = <<>>
    /\ snoise = <<>>

\* var sum float32; amplitude := float32(1.0); i := 0
TurbEnter ==
    /\ tpc = "call"
    /\ tsum' = Finite(0)
    /\ tamplitude' = Finite(1)
    /\ tfrequency' = targs.frequency
    /\ ti' = 0
    /\ tterm' = <<>>
    /\ tpc' = "loop"
    /\ UNCHANGED <<tcall, targs, tresult, snoise>>
    /\ UNCHANGED <<mvars, pvars, gvars>>

\* One iteration of for i := 0; i < octaves; i++ {...}
TurbOctave ==
    /\ tpc = "loop"
    /\ ti < Octaves
    /\ LET at == <<FMul(targs.x, tfrequency), FMul(targs.y, tfrequency)>>
       IN  \E s \in snoise2(at) :
               /\ at \in DOMAIN snoise => snoise[at] = s
               /\ snoise' = (at :> s) @@ snoise
               /\ tterm' = Append(tterm, Term(s, tamplitude))
               /\ tsum' = FAdd(tsum, Term(s, tamplitude))
    /\ tfrequency' = FMul(tfrequency, targs.lacunarity)
    /\ tamplitude' = FMul(tamplitude, targs.gain)
    /\ ti' = ti + 1
    /\ UNCHANGED <<tpc, tcall, targs, tresult>>
    /\ UNCHANGED <<mvars, pvars, gvars>>

\* i < octaves fails: return sum. The second call follows the first.
TurbReturn ==
    /\ tpc = "loop"
    /\ ~(ti < Octaves)
    /\ tresult' = Append(tresult, tsum)
    /\ IF tcall = 1
       THEN tcall' = 2 /\ tpc' = "call"
       ELSE tcall' = tcall /\ tpc' = "done"
    /\ UNCHANGED <<targs, ti, tsum, tamplitude, tfrequency, tterm, snoise>>
    /\ UNCHANGED <<mvars, pvars, gvars>>

TurbNext ==
    \/ TurbEnter
    \/ TurbOctave
    \/ TurbReturn

\* makeNoise has returned; its state is not touched by the other specifications.
MakeNoiseIdle ==
    /\ winWidth = 1
    /\ winHeight = 1
    /\ numRoutines = 1
    /\ turb = <<>>
    /\ noise = <<>>
    /\ min = MaxFloat32
    /\ max = -MaxFloat32
    /\ mutex = {}
    /\ wg = 0
    /\ mpc = "done"
    /\ spawned = 0
    /\ wpc = <<>>
    /\ wj = <<>>
    /\ innerMin = <<>>
    /\ innerMax = <<>>
    /\ passed = <<>>
    /\ touched = <<>>
    /\ ri = 0
    /\ pixels = <<>>

\* Only turbulence runs.
InitTurb == TurbInit /\ MakeNoiseIdle /\ PermIdle /\ GradIdle

TurbSpec == InitTurb /\ [][TurbNext]_vars

\* v >= 0 on a float32 value: false of NaN.
NonNegative(v) == v[1] # "nan" /\ ~FLess(v, Finite(0))

\* C8: every term turbulence adds to its sum is non-negative, whatever the
\* arguments; so each result is >= 0 and the result with 2n octaves is never
\* smaller than the result with n octaves on the same other arguments.
C8_TurbulenceNonNegative ==
    /\ \A k \in 1 .. Len(tterm) : NonNegative(tterm[k])
    /\ \A k \in 1 .. Len(tresult) : NonNegative(tresult[k])
    /\ Len(tresult) = 2 => ~FLess(tresult[2], tresult[1])

\* ------------------------------------------------- snoise2: the perm reads
\* var perm = [256]uint8{...}: entry k of the Go array is perm[k + 1] here.
perm ==
    <<
    151, 160, 137, 91, 90, 15, 131, 13, 201, 95, 96, 53, 194, 233, 7, 225,
    140, 36, 103, 30, 69, 142, 8, 99, 37, 240, 21, 10, 23, 190, 6, 148,
    247, 120, 234, 75, 0, 26, 197, 62, 94, 252, 219, 203, 117, 35, 11, 32,
    57, 177, 33, 88, 237, 149, 56, 87, 174, 20, 125, 136, 171, 168, 68, 175,
    74, 165, 71, 134, 139, 48, 27, 166, 77, 146, 158, 231, 83, 111, 229, 122,
    60, 211, 133, 230, 220, 105, 92, 41, 55, 46, 245, 40, 244, 102, 143, 54,
    65, 25, 63, 161, 1, 216, 80, 73, 209, 76, 132, 187, 208, 89, 18, 169,
    200, 196, 135, 130, 116, 188, 159, 86, 164, 100, 109, 198, 173, 186, 3, 64,
    52, 217, 226, 250, 124, 123, 5, 202, 38, 147, 118, 126, 255, 82, 85, 212,
    207, 206, 59, 227, 47, 16, 58, 17, 182, 189, 28, 42, 223, 183, 170, 213,
    119, 248, 152, 2, 44, 154, 163, 70, 221, 153, 101, 155, 167, 43, 172, 9,
    129, 22, 39, 253, 19, 98, 108, 110, 79, 113, 224, 232, 178, 185, 112, 104,
    218, 246, 97, 228, 251, 34, 242, 193, 238, 210, 144, 12, 191, 179, 162, 241,
    81, 51, 145, 235, 249, 14, 239, 107, 49, 192, 214, 31, 181, 199, 106, 157,
    184, 84, 204, 176, 115, 121, 50, 45, 127, 4, 150, 254, 138, 236, 205, 93,
    222, 114, 67, 29, 24, 72, 243, 141, 128, 195, 78, 66, 215, 61, 156, 180
    >>

\* perm[k] of the source, k an index of the array.
permAt(k) == perm[k + 1]

\* uint8(i) of an int: the low 8 bits.
ToUint8(i) == i % 256

\* a + b on uint8 operands: the sum wraps at 256.
Add8Saturating(a, b) == IF a + b > 255 THEN 255 ELSE a + b
Add8(a, b) == (a + b) % 256

\* The cell indices i, j the reads are tried on: around the wrap at 256 and at
\* 0, negative and positive.
CellIndices == {-257, -256, -2, -1, 0, 1, 254, 255, 256, 511}

\* <<i1, j1>>: x0 > y0 selects <<1, 0>>, otherwise <<0, 1>>.
MiddleOffsets == {<<1, 0>>, <<0, 1>>}

\* The offsets of corner c: <<0, 0>>, <<i1, j1>>, <<1, 1>>.
CornerOffset(c) == IF c = 0 THEN <<0, 0>> ELSE IF c = 1 THEN pmid ELSE <<1, 1>>

\* jj, jj+j1, jj+1: the index of the inner read of corner c.
InnerIndex(c) ==
    IF c = 0 THEN pwrapped[2] ELSE Add8(pwrapped[2], CornerOffset(c)[2])

\* ii+perm[jj], ii+i1+perm[jj+j1], ii+1+perm[jj+1]: the index of the outer read.
OuterIndex(c) ==
    IF c = 0 THEN Add8(pwrapped[1], permAt(InnerIndex(c)))
    ELSE Add8(Add8(pwrapped[1], CornerOffset(c)[1]), permAt(InnerIndex(c)))

PermInit ==
    /\ pcell \in CellIndices \X CellIndices
    /\ pmid \in MiddleOffsets
    /\ pwrapped = <<>>
    /\ pcorner = 0
    /\ pinner = <<>>
    /\ pouter = <<>>

\* ii := uint8(i); jj := uint8(j)
PermWrap ==
    /\ pwrapped = <<>>
    /\ pcell # <<>>
    /\ pwrapped' = <<ToUint8(pcell[1]), ToUint8(pcell[2])>>
    /\ UNCHANGED <<pcell, pmid, pcorner, pinner, pouter>>
    /\ UNCHANGED <<mvars, tvars, gvars>>

\* The falloff t of the corner is not negative: grad2(perm[... + perm[...]], ...)
PermCornerRead ==
    /\ pwrapped # <<>>
    /\ pcorner < 3
    /\ pinner' = (pcorner :> InnerIndex(pcorner)) @@ pinner
    /\ pouter' = (pcorner :> OuterIndex(pcorner)) @@ pouter
    /\ pcorner' = pcorner + 1
    /\ UNCHANGED <<pcell, pmid, pwrapped>>
    /\ UNCHANGED <<mvars, tvars, gvars>>

\* The falloff t of the corner is negative: the corner contributes 0, no read.
PermCornerSkip ==
    /\ pwrapped # <<>>
    /\ pcorner < 3
    /\ pcorner' = pcorner + 1
    /\ UNCHANGED <<pcell, pmid, pwrapped, pinner, pouter>>
    /\ UNCHANGED <<mvars, tvars, gvars>>

PermNext ==
    \/ PermWrap
    \/ PermCornerRead
    \/ PermCornerSkip

\* Only snoise2's table reads runs.
InitPerm == PermInit /\ MakeNoiseIdle /\ TurbIdle /\ GradIdle

PermSpec == InitPerm /\ [][PermNext]_vars

\* The corner offsets as the claim names them.
ClaimOffset(c) == IF c = 0 THEN <<0, 0>> ELSE IF c = 1 THEN pmid ELSE <<1, 1>>

\* C10: for each corner read, the outer index is
\* ((i mod 256) + cornerI + perm[((j mod 256) + cornerJ) mod 256]) mod 256, and
\* both reads use an index in 0..255: sums above 255 wrap.
C10_PermIndexWraps ==
    \A c \in DOMAIN pouter :
        LET ci == ClaimOffset(c)[1]
            cj == ClaimOffset(c)[2]
            inner == ((pcell[2] % 256) + cj) % 256
        IN  /\ pinner[c] \in 0 .. 255
            /\ pouter[c] \in 0 .. 255
            /\ pinner[c] = inner
            /\ pouter[c] = ((pcell[1] % 256) + ci + perm[inner + 1]) % 256

\* A negative i with ii = 255 and jj = 255: the last corner's reads were made
\* with both ii + 1 and jj + 1 wrapped to 0.
C10_Witness ==
    /\ pcell = <<-1, 255>>
    /\ 2 \in DOMAIN pouter
    /\ pinner[2] = 0
    /\ pouter[2] = perm[1]

\* ------------------------------------------------------ float32 arithmetic
\* A float32 value is <<m, k>>, standing for m * 2^-k with 0 <= m <= 2^24; an
\* exact intermediate result is a wide number <<hi, lo>>, standing for
\* hi * 2^16 + lo with 0 <= lo < 2^16, in units of 2^-k.

Pow2Table ==
    <<1, 2, 4, 8, 16, 32, 64, 128, 256, 512, 1024, 2048, 4096, 8192, 16384, 32768,
      65536, 131072, 262144, 524288, 1048576, 2097152, 4194304, 8388608, 16777216,
      33554432, 67108864, 134217728, 268435456, 536870912, 1073741824>>
Pow2(n) == Pow2Table[n + 1]

\* The number of bits of n, 0 <= n < 2^31.
BitLen8(n) ==
    IF n >= 16
    THEN (IF n >= 64 THEN (IF n >= 128 THEN 8 ELSE 7) ELSE (IF n >= 32 THEN 6 ELSE 5))
    ELSE (IF n >= 4 THEN (IF n >= 8 THEN 4 ELSE 3)
          ELSE (IF n >= 2 THEN 2 ELSE IF n >= 1 THEN 1 ELSE 0))
BitLen(n) ==
    IF n >= 16777216 THEN 24 + BitLen8(n \div 16777216)
    ELSE IF n >= 65536 THEN 16 + BitLen8(n \div 65536)
    ELSE IF n >= 256 THEN 8 + BitLen8(n \div 256)
    ELSE BitLen8(n)

\* kept + rem / 2^s rounded to the nearest integer, ties to even.
RoundEven(kept, rem, s) ==
    IF rem > Pow2(s - 1) \/ (rem = Pow2(s - 1) /\ kept % 2 = 1) THEN kept + 1 ELSE kept

\* The wide number hi * 2^16 + lo, from parts of any sign.
Wide(hi, lo) == <<hi + (lo \div 65536), lo % 65536>>

\* The float32 nearest to the wide number w in units of 2^-k.
RoundWide(w, k) ==
    LET s == (IF w[1] = 0 THEN BitLen(w[2]) ELSE 16 + BitLen(w[1])) - 24
    IN  IF s <= 0 THEN <<w[1] * 65536 + w[2], k>>
        ELSE <<RoundEven(w[1] * Pow2(16 - s) + (w[2] \div Pow2(s)), w[2] % Pow2(s), s),
               k - s>>

\* The first 24 bits of r / 255 after the q already found, one bit at a time:
\* <<quotient, remainder, number of bits after the point>>.
RECURSIVE DivBits(_, _, _)
DivBits(r, q, k) ==
    IF q >= 8388608 THEN <<q, r, k>>
    ELSE IF 2 * r >= 255 THEN DivBits(2 * r - 255, 2 * q + 1, k + 1)
    ELSE DivBits(2 * r, 2 * q, k + 1)

\* float32(i) / float32(255), rounded to nearest (255 is odd: there is no tie).
DivideBy255(i) ==
    IF i = 0 THEN <<0, 0>>
    ELSE LET d == DivBits(i % 255, i \div 255, 0)
         IN  <<IF 2 * d[2] > 255 THEN d[1] + 1 ELSE d[1], d[3]>>

\* m * d as a wide number, for a mantissa m and 0 <= d <= 255.
WideProduct(m, d) == Wide((m \div 65536) * d, (m % 65536) * d)

\* The float32 f in units of 2^-16 or finer.
AtLeast16(f) == IF f[2] >= 16 THEN f ELSE <<f[1] * Pow2(16 - f[2]), 16>>

\* ---------------------------------------------------------- getDualGradient
\* result := make([]color, 256)
RampLen == 256

\* The four colours makeNoise passes, and one more with a channel 170 away from
\* another colour's.
ProgramColors ==
    <<[r |-> 0, g |-> 0, b |-> 175], [r |-> 80, g |-> 160, b |-> 244],
      [r |-> 12, g |-> 192, b |-> 75], [r |-> 255, g |-> 255, b |-> 255]>>
ControlColors ==
    {ProgramColors[k] : k \in 1 .. 4} \cup {[r |-> 170, g |-> 85, b |-> 0]}

\* pct < 0.5
BelowHalf(pct) == pct[1] = 0 \/ pct[1] < Pow2(pct[2] - 1)

\* pct*float32(2): exact.
Twice(pct) == IF pct[1] = 0 THEN pct ELSE <<pct[1], pct[2] - 1>>

\* pct*float32(1.5)-float32(0.5), for pct >= 0.5: the product is rounded and
\* the difference is exact, or both are fused into one rounding.
ThreeHalvesMinusHalf(pct) ==
    IF fused
    THEN RoundWide(Wide(0, 3 * pct[1] - Pow2(pct[2])), pct[2] + 1)
    ELSE LET t == RoundWide(Wide(0, 3 * pct[1]), pct[2] + 1)
         IN  <<t[1] - Pow2(t[2] - 1), t[2]>>

\* The term pct*(float32(b2)-float32(b1)) without its sign, as a wide number and
\* its unit: exact when fused into the sum, rounded to float32 otherwise.
lerpTerm(d, pct) ==
    IF fused THEN <<WideProduct(pct[1], d), pct[2]>>
    ELSE LET r == AtLeast16(RoundWide(WideProduct(pct[1], d), pct[2]))
         IN  <<Wide(0, r[1]), r[2]>>

\* byte(v) of a float32 v, 0 <= v < 256: truncation.
ToByte(v) == IF v[2] >= 31 THEN 0 ELSE (v[1] \div Pow2(v[2])) % 256

\* return byte(float32(b1) + pct*(float32(b2)-float32(b1)))
lerpWithoutSubtraction(b1, b2, pct) ==
    LET t == lerpTerm(b2, pct)
    IN  IF pct[1] = 0 THEN b1
        ELSE ToByte(RoundWide(Wide(b1 * Pow2(t[2] - 16) + t[1][1], t[1][2]), t[2]))
lerp(b1, b2, pct) ==
    LET sg == IF b2 < b1 THEN -1 ELSE 1
        t == lerpTerm(sg * (b2 - b1), pct)
    IN  IF pct[1] = 0 THEN b1
        ELSE ToByte(RoundWide(Wide(b1 * Pow2(t[2] - 16) + sg * t[1][1], sg * t[1][2]),
                              t[2]))

\* return color{lerp(c1.r, c2.r, pct), lerp(c1.g, c2.g, pct), lerp(c1.b, c2.b, pct)}
colorlerp(c1, c2, pct) ==
    [r |-> lerp(c1.r, c2.r, pct), g |-> lerp(c1.g, c2.g, pct), b |-> lerp(c1.b, c2.b, pct)]

\* The body of getDualGradient's loop: the colour of entry i.
RampEntry(i) ==
    LET pct == DivideBy255(i)
    IN  IF BelowHalf(pct)
        THEN colorlerp(gctrl[1], gctrl[2], Twice(pct))
        ELSE colorlerp(gctrl[3], gctrl[4], ThreeHalvesMinusHalf(pct))

GradInit ==
    /\ gpc = "loop"
    /\ fused \in BOOLEAN
    /\ gctrl \in ControlColors \X ControlColors \X ControlColors \X ControlColors
    /\ gi = 0
    /\ result = <<>>

\* One iteration of for i := range result {...}
GradEntry ==
    /\ gpc = "loop"
    /\ gi < RampLen
    /\ result' = Append(result, RampEntry(gi))
    /\ gi' = gi + 1
    /\ UNCHANGED <<gpc, fused, gctrl>>
    /\ UNCHANGED <<mvars, tvars, pvars>>

\* The loop ends: return result
GradReturn ==
    /\ gpc = "loop"
    /\ ~(gi < RampLen)
    /\ gpc' = "done"
    /\ UNCHANGED <<fused, gctrl, gi, result>>
    /\ UNCHANGED <<mvars, tvars, pvars>>

GradNext ==
    \/ GradEntry
    \/ GradReturn

\* Only getDualGradient runs.
InitGrad == GradInit /\ MakeNoiseIdle /\ TurbIdle /\ PermIdle

GradSpec == InitGrad /\ [][GradNext]_vars

Abs(v) == IF v < 0 THEN -v ELSE v
CeilDiv(a, b) == (a + b - 1) \div b
Channels(c) == <<c.r, c.g, c.b>>

\* One interpolation step of channel ch as <<numerator, denominator>>:
\* 2*|c2-c1|/255 in the first half, 1.5*|c4-c3|/255 in the second.
StepFirst(ch) == <<2 * Abs(Channels(gctrl[2])[ch] - Channels(gctrl[1])[ch]), 255>>
StepSecond(ch) == <<3 * Abs(Channels(gctrl[4])[ch] - Channels(gctrl[3])[ch]), 510>>

\* The difference of channel ch between the entries of indices i and i+1.
Delta(i, ch) == Abs(Channels(result[i + 2])[ch] - Channels(result[i + 1])[ch])

Larger(a, b) == IF a > b THEN a ELSE b

\* C9 as stated: in the ramp getDualGradient returns, the entries i and i+1 differ
\* in each channel by at most one step of their segment, ceil(2*|c2-c1|/255) for
\* indices up to 127 and ceil(1.5*|c4-c3|/255) from 128 on, the pair 127, 128
\* included (held to the larger of the two steps).
C9_RampContinuous ==
    gpc = "done" =>
        \A i \in 0 .. RampLen - 2 : \A ch \in 1 .. 3 :
            LET first == CeilDiv(StepFirst(ch)[1], StepFirst(ch)[2])
                second == CeilDiv(StepSecond(ch)[1], StepSecond(ch)[2])
            IN  Delta(i, ch) <=
                    (IF i + 1 <= 127 THEN first
                     ELSE IF i >= 128 THEN second
                     ELSE Larger(first, second))

\* C9 amended: within each half (i /= 127) the entries i and i+1 differ in each
\* channel by at most floor(step) + 1, which is ceil(step) unless the step is a
\* whole number; nothing bounds the pair 127, 128.
C9_RampContinuousWithinHalves ==
    gpc = "done" =>
        \A i \in (0 .. RampLen - 2) \ {127} : \A ch \in 1 .. 3 :
            Delta(i, ch) <=
                (IF i < 127 THEN StepFirst(ch)[1] \div StepFirst(ch)[2]
                 ELSE StepSecond(ch)[1] \div StepSecond(ch)[2]) + 1

\* getDualGradient has returned the ramp of makeNoise's four colours: it starts
\* at the first colour, ends at the fourth, and jumps between 127 and 128.
C9_Witness ==
    /\ gpc = "done"
    /\ gctrl = ProgramColors
    /\ result[1] = gctrl[1]
    /\ result[RampLen] = gctrl[4]
    /\ result[128] = [r |-> 79, g |-> 159, b |-> 243]
    /\ result[129] = [r |-> 73, g |-> 207, b |-> 120]

====
